---- MODULE Spec2Model ----
(***************************************************************************)
(* A model of the STT service: the ROUTER/DEALER bridge (ZMQHandler), the  *)
(* request loop (STTService), the audio admission pipeline                 *)
(* (AudioProcessor), the model manager with its idle monitor thread        *)
(* (ModelManager) and the transcription engine (TranscriptionEngine).      *)
(*                                                                         *)
(* Three threads run: the service loop ("svc"), the idle monitor ("mon")   *)
(* and a caller of the manager's public force_reload ("adm").  The         *)
(* environment sends messages to the ROUTER socket, delivers the shutdown  *)
(* signal and advances the clock.  Time is counted in units of the         *)
(* monitor's check interval (60 s = one minute), so timeout_seconds is     *)
(* timeout_minutes units.  A block of code that runs under the manager's   *)
(* lock and touches only what the lock protects is one step; get_model is  *)
(* kept in its three steps so that the lock is what orders them.           *)
(***************************************************************************)
EXTENDS Integers, Sequences, FiniteSets, TLC

\* ------------------------------------------------------------- bounds
MaxRequests == 2      \* messages the ROUTER socket delivers in one run
MaxTime == 2          \* minutes the clock advances
MaxFrames == 2        \* messages that reach the client's socket in one run
MaxThreads == 2       \* monitor threads started on one ModelManager
MaxRuns == 2          \* runs of generate() on one directory

\* ---------------------------------------------------------- constants
None == 0                       \* Python's None, for handles and paths
expected_sample_rate == 16000   \* STTConfig.expected_sample_rate
check_interval == 1             \* the monitor's 60 s, in minutes

\* The configured idle timeouts (--timeout, in minutes) that are tried.
TimeoutChoices == {0, 1}

\* ------------------------------------------------- wire values (msgpack)
\* A value keeps its Python type: t is "str", "int" or "bytes"; on the
\* wire the msgpack family of bytes is "bin".
IntV(n) == [t |-> "int", v |-> n]
StrRate == [t |-> "str", v |-> 0]          \* a sample_rate sent as a string

\* What the bytes of audio_data are: their length class and what
\* soundfile makes of them.
NoSound == [ok |-> FALSE, channels |-> 0, rate |-> 0]
Sound(c, r) == [ok |-> TRUE, channels |-> c, rate |-> r]
Bin(s) == [t |-> "bytes", n |-> 1, snd |-> s]
EmptyBin == [t |-> "bytes", n |-> 0, snd |-> NoSound]
StrData == [t |-> "str", n |-> 1, snd |-> NoSound]   \* audio_data sent as text

Mono16k == Bin(Sound(1, 16000))
Stereo16k == Bin(Sound(2, 16000))
Mono44k == Bin(Sound(1, 44100))
Stereo44k == Bin(Sound(2, 44100))
Tri16k == Bin(Sound(3, 16000))
Garbage == Bin(NoSound)

RequiredKeys == {"request_id", "audio_format", "sample_rate", "audio_data"}

\* AudioRequest (schemas.py): a dataclass, no type is checked.
AudioRequest(id, fmt, sr, ad) ==
    [request_id |-> id, audio_format |-> fmt, sample_rate |-> sr, audio_data |-> ad]

NoRequest == AudioRequest("", "", IntV(0), EmptyBin)

\* msgpack.packb without use_bin_type: bytes travel in the old raw family,
\* which unpackb(raw=False) reads back as str.
packb_raw(x) == IF x.t = "bytes" THEN [x EXCEPT !.t = "str"] ELSE x

\* msgpack.packb(use_bin_type=True) and msgpack.unpackb(raw=False) on one
\* value: bytes travel as bin, str as str, int as int.
packb(x) == IF x.t = "bytes" THEN [x EXCEPT !.t = "bin"] ELSE x
unpackb(x) == IF x.t = "bin" THEN [x EXCEPT !.t = "bytes"] ELSE x

\* serialize_audio_request: a msgpack map of the four named fields.
serialize_audio_request(r) ==
    [kind |-> "map", keys |-> RequiredKeys,
     body |-> [request_id |-> r.request_id, audio_format |-> r.audio_format,
               sample_rate |-> packb(r.sample_rate),
               audio_data |-> packb(r.audio_data)]]

\* Payloads that are no AudioRequest map: bytes that are not msgpack, a
\* msgpack value that is no map, a map that lacks a key.
BadPayloads ==
    { [kind |-> "invalid", keys |-> {}, body |-> NoRequest],
      [kind |-> "list", keys |-> {}, body |-> NoRequest],
      [kind |-> "map", keys |-> RequiredKeys \ {"audio_data"},
       body |-> serialize_audio_request(
                    AudioRequest("r1", "wav", IntV(16000), EmptyBin)).body] }

\* The requests the peers send: every combination of the four validation
\* defects, every kind of audio under an otherwise valid request, and the
\* variants of the valid request in each field.
DefectRequests ==
    { AudioRequest(id, fmt, sr, ad) :
        id \in {"", "r1"}, fmt \in {"wav", "mp3"},
        sr \in {IntV(0), IntV(16000)}, ad \in {EmptyBin, Mono16k} }
AudioKindRequests ==
    { AudioRequest("r1", "wav", IntV(16000), ad) :
        ad \in {Mono16k, Stereo16k, Mono44k, Stereo44k, Tri16k, Garbage, StrData} }
VariantRequests ==
    { AudioRequest("r1", "flac", IntV(16000), Mono16k),
      AudioRequest("r1", "wav", IntV(44100), Mono16k),
      AudioRequest("r1", "wav", IntV(44100), Mono44k),
      AudioRequest("r1", "wav", IntV(-1), Mono16k),
      AudioRequest("r1", "wav", StrRate, Mono16k),
      AudioRequest("r1", "wav", StrRate, EmptyBin),
      AudioRequest("", "mp3", StrRate, Mono16k) }
RequestPool == DefectRequests \cup AudioKindRequests \cup VariantRequests

Payloads == { serialize_audio_request(r) : r \in RequestPool } \cup BadPayloads

\* A second peer sends requests of its own.
OtherRequests ==
    { AudioRequest("r2", "wav", IntV(16000), Mono16k),
      AudioRequest("r2", "wav", IntV(16000), Garbage) }

\* What recv_multipart can return: [identity, data] of a DEALER peer.
Messages ==
    { [identity |-> "p1", data |-> d] : d \in Payloads } \cup
    { [identity |-> "p2", data |-> serialize_audio_request(r)] : r \in OtherRequests }

\* A decoder that checks nothing: whatever the payload holds is returned as
\* the request.
deserialize_unchecked(data) == [raises |-> "none", request |-> data.body]

\* deserialize_audio_request: unpackb, then the four keys.  KeyError and
\* UnpackException become ValueError (invalid bytes raise a ValueError
\* either way); indexing a value that is no map raises TypeError.
deserialize_audio_request(data) ==
    CASE data.kind = "invalid" -> [raises |-> "ValueError", request |-> NoRequest]
      [] data.kind = "list" -> [raises |-> "TypeError", request |-> NoRequest]
      [] data.kind = "map" /\ ~(RequiredKeys \subseteq data.keys) ->
            [raises |-> "ValueError", request |-> NoRequest]
      [] OTHER -> [raises |-> "none",
                   request |-> AudioRequest(data.body.request_id,
                                            data.body.audio_format,
                                            unpackb(data.body.sample_rate),
                                            unpackb(data.body.audio_data))]

\* ------------------------------------------------------------ schemas
\* AudioRequest.validate: the first failing check decides.  Comparing a
\* str sample_rate with 0 raises TypeError.
Truthy(x) == IF x.t = "int" THEN x.v # 0 ELSE x.n # 0
validate(r) ==
    CASE r.request_id = "" ->
            [raises |-> "none", is_valid |-> FALSE, error_msg |-> "request_id cannot be empty"]
      [] r.audio_format \notin {"wav", "flac"} ->
            [raises |-> "none", is_valid |-> FALSE, error_msg |-> "Invalid audio format"]
      [] r.sample_rate.t # "int" ->
            [raises |-> "TypeError", is_valid |-> FALSE, error_msg |-> ""]
      [] r.sample_rate.v <= 0 ->
            [raises |-> "none", is_valid |-> FALSE, error_msg |-> "Invalid sample rate"]
      [] ~Truthy(r.audio_data) ->
            [raises |-> "none", is_valid |-> FALSE, error_msg |-> "audio_data cannot be empty"]
      [] OTHER -> [raises |-> "none", is_valid |-> TRUE, error_msg |-> ""]

\* processing_time_ms: the measured wall-clock duration, or the default 0.0
\* of create_error.
Measured(d) == [measured |-> TRUE, v |-> d]
DefaultTime == [measured |-> FALSE, v |-> 0]

\* No response: the local variable before it is assigned, a None returned.
NoResponse ==
    [request_id |-> "", status |-> "none", text |-> "", confidence |-> "None",
     processing_time_ms |-> DefaultTime, error_details |-> << >>]

\* An error response that does not echo the request's id.
create_error_without_id(request_id, error_message) ==
    [request_id |-> "", status |-> "error", text |-> "",
     confidence |-> "None", processing_time_ms |-> [measured |-> FALSE, v |-> 0],
     error_details |-> error_message]

\* An error response that carries no error_details.
create_error_without_details(request_id, error_message) ==
    [request_id |-> request_id, status |-> "error", text |-> "",
     confidence |-> "None", processing_time_ms |-> [measured |-> FALSE, v |-> 0],
     error_details |-> << >>]

\* A success response that drops the confidence of the hypothesis.
create_success_without_confidence(request_id, text, processing_time_ms, confidence) ==
    [request_id |-> request_id, status |-> "success", text |-> text,
     confidence |-> "None", processing_time_ms |-> processing_time_ms,
     error_details |-> << >>]

\* TranscriptionResponse.create_success / create_error.  error_details is
\* the chain of message prefixes, << >> when absent; confidence "None" when
\* absent.
create_success(request_id, text, processing_time_ms, confidence) ==
    [request_id |-> request_id, status |-> "success", text |-> text,
     confidence |-> confidence, processing_time_ms |-> processing_time_ms,
     error_details |-> << >>]
create_error(request_id, error_message) ==
    [request_id |-> request_id, status |-> "error", text |-> "",
     confidence |-> "None", processing_time_ms |-> DefaultTime,
     error_details |-> error_message]

\* serialize_transcription_response: a msgpack map of the six fields;
\* None travels as nil.
serialize_transcription_response(resp) ==
    [kind |-> "map",
     keys |-> {"request_id", "status", "text", "confidence",
               "processing_time_ms", "error_details"},
     body |-> [request_id |-> resp.request_id, status |-> resp.status,
               text |-> resp.text,
               confidence |-> IF resp.confidence = "None" THEN "nil"
                              ELSE resp.confidence,
               processing_time_ms |-> resp.processing_time_ms,
               error_details |-> IF resp.error_details = << >> THEN <<"nil">>
                                 ELSE resp.error_details]]

\* deserialize_transcription_response on a map that holds the required
\* keys: the three required fields are indexed, the others read with
\* obj.get (None, 0.0 and None when the key is absent); nil is read back as
\* None.
deserialize_transcription_response(data) ==
    [request_id |-> data.body.request_id, status |-> data.body.status,
     text |-> data.body.text,
     confidence |-> IF "confidence" \notin data.keys \/ data.body.confidence = "nil"
                      THEN "None" ELSE data.body.confidence,
     processing_time_ms |-> IF "processing_time_ms" \notin data.keys THEN DefaultTime
                            ELSE data.body.processing_time_ms,
     error_details |-> IF "error_details" \notin data.keys
                          \/ data.body.error_details = <<"nil">>
                         THEN << >> ELSE data.body.error_details]

\* The keys deserialize_transcription_response indexes.
ResponseRequiredKeys == {"request_id", "status", "text"}

\* What a call of deserialize_transcription_response does with a payload:
\* KeyError and UnpackException become ValueError (invalid bytes raise a
\* ValueError either way); indexing a value that is no map raises
\* TypeError, which is not converted.
try_deserialize_transcription_response(data) ==
    CASE data.kind = "invalid" -> [raises |-> "ValueError", response |-> NoResponse]
      [] data.kind = "list" -> [raises |-> "TypeError", response |-> NoResponse]
      [] data.kind = "map" /\ ~(ResponseRequiredKeys \subseteq data.keys) ->
            [raises |-> "ValueError", response |-> NoResponse]
      [] OTHER -> [raises |-> "none",
                   response |-> deserialize_transcription_response(data)]

\* --------------------------------------------------- audio admission
\* The file system of temporary files: a function from the paths that
\* exist to what soundfile would read from them.
FreshPath(fs) == CHOOSE p \in 1..(Cardinality(DOMAIN fs) + 1) : p \notin DOMAIN fs
Create(fs, p, snd) == [q \in DOMAIN fs \cup {p} |-> IF q = p THEN snd ELSE fs[q]]
Unlink(fs, p) == [q \in DOMAIN fs \ {p} |-> fs[q]]

\* _write_temp_file: NamedTemporaryFile(delete=False) creates the file,
\* then write() stores the bytes.  write() raises TypeError for a str and
\* OSError when the disk refuses (write_ok false); the file stays.
WriteRaises(audio_data, write_ok) == audio_data.t # "bytes" \/ ~write_ok

\* A rate test with a tolerance: 44100 passes as well.
_validate_sample_rate_tolerant(sample_rate) ==
    sample_rate \in {expected_sample_rate, 44100}

\* A rate test that accepts every rate.
_validate_sample_rate_any(sample_rate) == TRUE

\* _validate_sample_rate: exact equality with the expected rate.
_validate_sample_rate(sample_rate) == sample_rate = expected_sample_rate

\* A stereo test that takes every multi-channel file for stereo.
is_stereo_multichannel(snd) == snd.channels >= 2

\* _handle_stereo_audio's test: exactly two channels.
is_stereo(snd) == snd.channels = 2

\* A conversion that writes the two channels back unchanged.
MonoOf_unchanged(snd) == snd

\* _convert_to_mono: the mean of the channels, same rate.
MonoOf(snd) == Sound(1, snd.rate)

AdmitResult(ok, msg, path, fs) ==
    [is_valid |-> ok, error_msg |-> msg, temp_file |-> path, fs |-> fs]

\* validate_and_process(audio_data, audio_format) on file system fs, with
\* the environment's answers write_ok (the staging write) and mono_ok
\* (sf.write of the mono file).
validate_and_process(audio_data, convert, fs, write_ok, mono_ok) ==
    LET temp_path == FreshPath(fs)
        staged == Create(fs, temp_path, IF WriteRaises(audio_data, write_ok)
                                          THEN NoSound ELSE audio_data.snd)
        snd == audio_data.snd
        mono_path == FreshPath(staged)
    IN  CASE WriteRaises(audio_data, write_ok) ->
               \* raised before temp_path was bound: nothing unlinks it
               AdmitResult(FALSE, "Unexpected error processing audio", None, staged)
          [] ~snd.ok ->
               AdmitResult(FALSE, "Failed to read audio file", None, Unlink(staged, temp_path))
          [] ~_validate_sample_rate(snd.rate) ->
               AdmitResult(FALSE, "Invalid sample rate", None, Unlink(staged, temp_path))
          [] ~is_stereo(snd) ->
               AdmitResult(TRUE, "", temp_path, staged)
          [] ~convert ->
               AdmitResult(FALSE, "Audio is stereo but mono conversion is disabled",
                           None, Unlink(staged, temp_path))
          [] ~mono_ok ->
               \* sf.write raised after the mono file was created
               AdmitResult(FALSE, "Unexpected error processing audio", None,
                           Unlink(Create(staged, mono_path, NoSound), temp_path))
          [] OTHER ->
               AdmitResult(TRUE, "", mono_path,
                           Unlink(Create(staged, mono_path, MonoOf(snd)), temp_path))

\* cleanup_temp_file: unlink when the path is given and exists.
cleanup_temp_file(fs, p) == IF p # None /\ p \in DOMAIN fs THEN Unlink(fs, p) ELSE fs

\* ------------------------------------------------------------ inference
\* What model.transcribe([path]) gives: a Hypothesis with text and score,
\* a plain string, an empty list, or an exception.
NoResults == [kind |-> "none", text |-> "", score |-> "None"]
InferenceOutcomes ==
    { [kind |-> "hyp", text |-> "hello world", score |-> "0.97"],
      [kind |-> "str", text |-> "hello", score |-> "None"],
      [kind |-> "empty", text |-> "", score |-> "None"],
      [kind |-> "raises", text |-> "", score |-> "None"] }

\* ---------------------------------------------------------------- state
VARIABLES
    \* STTService
    spc,              \* where the service thread is in run()
    running,          \* STTService.running
    message_parts,    \* the message recv_multipart gave this call
    cur,              \* (identity, request) of this call, once decoded
    temp_file,        \* _process_one_request's temp_file
    response,         \* _process_one_request's response
    exc,              \* the exception propagating in _process_one_request
    outcome,          \* how the last call of _process_one_request ended
    sent,             \* what this call has put on the sockets, in order
    calls,            \* the stages this call has entered
    \* the transport
    polled,           \* messages the ROUTER socket has delivered so far
    sockets_open,     \* whether the two sockets exist
    \* the temporary files
    files,
    \* ModelManager
    model,            \* _model: None or the instance
    last_used_time,   \* _last_used_time
    lock_owner,       \* the thread holding _lock
    mm_running,       \* ModelManager._running
    \* TranscriptionEngine.transcribe
    handle,           \* transcribe's local model
    start_time,       \* transcribe's start_time
    results,          \* what model.transcribe gave this call
    \* the monitor thread: its position and when its sleep ends
    mpc, wake,
    \* the environment and the configuration
    now, signalled, timeout_minutes, convert_to_mono,
    \* other callers of the ModelManager: a thread in force_reload, a
    \* thread in is_loaded and what it was last told
    apc, opc, seen,
    \* STTClient, the downstream consumer
    client_socket,    \* STTClient.socket: None or the bound ROUTER socket
    client_running,   \* STTClient._running
    inbox,            \* the messages waiting on the client's socket
    arrived,          \* messages the network has delivered to it so far
    taken,            \* messages recv_multipart has taken from it so far
    called,           \* the method of STTClient that was called last
    cpc,              \* where the caller of the client is
    received,         \* what the last receive() returned
    delivered,        \* the responses handed to the callback, in order
    client_exc,       \* the exception the last client call raised
    \* the start command: its environment, its options, the STTConfig built
    environ, options, config,
    \* a ModelManager driven through start_monitoring and stop_monitoring:
    \* the monitor threads started so far
    monitor_threads,
    \* DatasetGenerator: the directory, the ledger, the metadata file and
    \* the run of generate()
    dataset

svc_vars == <<spc, running, message_parts, cur, temp_file, response, exc, outcome, sent, calls>>
net_vars == <<polled, sockets_open>>
mm_vars == <<model, last_used_time, lock_owner, mm_running>>
eng_vars == <<handle, start_time, results>>
thr_vars == <<mpc, wake>>
env_vars == <<now, signalled, timeout_minutes, convert_to_mono>>
obs_vars == <<apc, opc, seen>>
client_vars == <<client_socket, client_running, inbox, arrived, taken, called, cpc,
                 received, delivered, client_exc>>
cfg_vars == <<environ, options, config>>
\* What the service process and its monitor thread never touch.
api_vars == <<monitor_threads, dataset>>
ext_vars == <<obs_vars, client_vars, cfg_vars, api_vars>>
proc_vars == <<svc_vars, net_vars, files, mm_vars, eng_vars, thr_vars, env_vars>>
vars == <<svc_vars, net_vars, files, mm_vars, eng_vars, thr_vars, env_vars, ext_vars>>

NoIdentity == "none"
NoCur == [identity |-> NoIdentity, request |-> NoRequest]
NoMessage == [identity |-> NoIdentity, data |-> [kind |-> "none", keys |-> {}, body |-> NoRequest]]
EmptyFs == [p \in {} |-> NoSound]

\* Whether receive_request has returned a decoded request in this call.
Decoded == cur.identity # NoIdentity

\* STTService, its ModelManager and its transport after construction.
InitProcess ==
    /\ spc = "init" /\ running = FALSE
    /\ message_parts = NoMessage /\ cur = NoCur /\ temp_file = None
    /\ response = NoResponse /\ exc = "none" /\ outcome = "none" /\ sent = << >> /\ calls = {}
    /\ polled = 0 /\ sockets_open = FALSE
    /\ files = EmptyFs
    /\ model = None /\ last_used_time = 0 /\ lock_owner = "none"
    /\ mm_running = FALSE
    /\ handle = None /\ start_time = 0 /\ results = NoResults
    /\ mpc = "unstarted" /\ wake = 0
    /\ now = 0 /\ signalled = FALSE

\* No thread is in force_reload or is_loaded.
InitObservers == apc = "idle" /\ opc = "idle" /\ seen = "none"

\* STTClient.__init__: no socket, not running; nothing has arrived.
InitClient ==
    /\ client_socket = "none" /\ client_running = FALSE
    /\ inbox = << >> /\ arrived = 0 /\ taken = 0 /\ called = "none"
    /\ cpc = "idle" /\ received = NoResponse /\ delivered = << >>
    /\ client_exc = "none"

\* An environment without the two address variables, the options at
\* their defaults, no STTConfig built yet.
Unset == [set |-> FALSE, value |-> ""]
Given(v) == [set |-> TRUE, value |-> v]
NoConfig == [input_address |-> "", output_address |-> "", built |-> FALSE]
InitConfig ==
    /\ environ = [STT_INPUT_ADDRESS |-> Unset, LLM_RAG_PIPE_INPUT_ADDRESS |-> Unset]
    /\ options = [input_address |-> Unset, output_address |-> "tcp://localhost:5556"]
    /\ config = NoConfig

\* The service process on its own: no STTClient object exists in it and
\* the launcher's environment and options are not part of it, so their
\* variables hold None throughout.
NoClient ==
    /\ client_socket = None /\ client_running = None
    /\ inbox = None /\ arrived = None /\ taken = None /\ called = None
    /\ cpc = None /\ received = None /\ delivered = None
    /\ client_exc = None
NoLauncher == environ = None /\ options = None /\ config = None

\* Nor is start_monitoring called by anything but setup(), and no
\* DatasetGenerator runs in the service or the client.
NoApi == monitor_threads = None /\ dataset = None

Init ==
    /\ InitProcess
    /\ timeout_minutes \in TimeoutChoices
    /\ convert_to_mono \in BOOLEAN
    /\ InitObservers /\ NoClient /\ NoLauncher /\ NoApi

\* The same under one configuration.
InitManager ==
    /\ InitProcess
    /\ timeout_minutes = 1
    /\ convert_to_mono = FALSE
    /\ InitObservers /\ NoClient /\ NoLauncher /\ NoApi

\* The threads run while the process does: it ends when run() returns or
\* raises.
Alive == spc \notin {"stopped", "crashed"}

\* ------------------------------------------------------------ the lock
\* A manager without mutual exclusion: every thread enters at once.
CanAcquire_unlocked(t) == TRUE

\* A lock that a second thread may enter while force_reload holds it.
CanAcquire_during_reload(t) == lock_owner \in {"none", t, "adm"}

\* A plain Lock: not even the thread that holds it may take it again.
CanAcquire_not_reentrant(t) == lock_owner = "none"

\* threading.RLock: free, or held by the asking thread (re-entrant).
CanAcquire(t) == lock_owner = "none" \/ lock_owner = t
Release(t) == IF lock_owner = t THEN "none" ELSE lock_owner

\* A manager that loses its timeout: the minutes are multiplied by zero.
timeout_seconds_zero == 0 * timeout_minutes

\* ModelManager.timeout_seconds, in the clock's unit.
timeout_seconds == timeout_minutes

\* The instances alive: the one in the slot and the one a caller uses.
\* from_pretrained makes an instance other than the one still in use.
Live == {model, handle} \ {None}
NewInstance == CHOOSE i \in 1..2 : i # handle

\* A load that leaves an instance in the slot even when it raised.
_load_model_partial(m, ok) == NewInstance

\* _load_model on a slot holding m: from_pretrained's instance is assigned
\* to the slot when it returns (ok); when it raises the assignment never
\* happens and RuntimeError goes to the caller.
_load_model(m, ok) == IF ok THEN NewInstance ELSE m

\* _deallocate_model: the slot is cleared.
_deallocate_model(m) == None

\* is_loaded(): the slot holds an instance.
is_loaded == model # None

\* ------------------------------------------------------- STTService.run
\* setup(): the sockets are bound and connected, the monitor thread is
\* started; then run() installs the signal handlers.
SetupOk ==
    /\ spc = "init"
    /\ sockets_open' = TRUE
    /\ mm_running' = TRUE /\ mpc' = "sleep" /\ wake' = now + check_interval
    /\ spc' = "installed"
    /\ UNCHANGED <<running, message_parts, cur, temp_file, response, exc, outcome, sent, calls,
                   polled, files,
                   model, last_used_time, lock_owner, eng_vars, env_vars>>
    /\ UNCHANGED ext_vars

\* A setup() whose failure is swallowed: run() goes on without sockets.
SetupFails_swallowed ==
    /\ spc = "init"
    /\ spc' = "installed"
    /\ UNCHANGED <<running, message_parts, cur, temp_file, response, exc, outcome, sent, calls,
                   net_vars, files, mm_vars, eng_vars, thr_vars, env_vars>>
    /\ UNCHANGED ext_vars

\* setup() raises (the bind fails): run() has no handler around it.
SetupFails ==
    /\ spc = "init"
    /\ spc' = "crashed"
    /\ UNCHANGED <<running, message_parts, cur, temp_file, response, exc, outcome, sent, calls,
                   net_vars, files, mm_vars, eng_vars, thr_vars, env_vars>>
    /\ UNCHANGED ext_vars

\* self.running = True
SetRunning ==
    /\ spc = "installed"
    /\ running' = TRUE
    /\ spc' = "loop"
    /\ UNCHANGED <<message_parts, cur, temp_file, response, exc, outcome, sent, calls,
                   net_vars, files, mm_vars, eng_vars, thr_vars, env_vars>>
    /\ UNCHANGED ext_vars

\* while self.running: call _process_one_request, or leave the loop for
\* cleanup().
LoopCheck ==
    /\ spc = "loop"
    /\ \/ /\ running
          /\ spc' = "recv"
       \/ /\ ~running
          /\ spc' = "stop_monitoring"
    /\ outcome' = "none"
    /\ UNCHANGED <<running, message_parts, cur, temp_file, response, exc, sent, calls,
                   net_vars, files, mm_vars, eng_vars, thr_vars, env_vars>>
    /\ UNCHANGED ext_vars

\* A handler that leaves the call at once and goes to cleanup().
Signal_abort ==
    /\ spc \notin {"init", "crashed", "stopped"}
    /\ running' = FALSE
    /\ signalled' = TRUE
    /\ spc' = IF spc \in {"recv", "get_model", "gm_load", "gm_return", "infer", "finally"}
                THEN "stop_monitoring" ELSE spc
    /\ UNCHANGED <<message_parts, cur, temp_file, response, exc, outcome, sent, calls,
                   net_vars, files, mm_vars, eng_vars, thr_vars,
                   now, timeout_minutes, convert_to_mono>>
    /\ UNCHANGED ext_vars

\* _signal_handler, once the handlers are installed.
Signal ==
    /\ spc \notin {"init", "crashed", "stopped"}
    /\ running' = FALSE
    /\ signalled' = TRUE
    /\ UNCHANGED <<spc, message_parts, cur, temp_file, response, exc, outcome, sent, calls,
                   net_vars, files, mm_vars, eng_vars, thr_vars,
                   now, timeout_minutes, convert_to_mono>>
    /\ UNCHANGED ext_vars

\* ------------------------------------------------ ZMQHandler.send_response
\* A reply routed back through the ROUTER socket to the requester.
send_response_to_requester(resp, identity) ==
    [socket |-> "input", frames |-> <<identity, [kind |-> "map", keys |-> {}, body |-> resp]>>]

\* The socket and the frames of a response: the DEALER (output) socket,
\* one frame, the identity of the requester unused.
send_response(resp, identity) ==
    [socket |-> "output", frames |-> <<serialize_transcription_response(resp)>>]

\* self.zmq_handler.send_response(response) at the end of a branch: the
\* message is sent, or the send raises (send_ok false) and the exception
\* goes to the handlers.  Either way the call goes on to its finally.
Respond(resp, identity, stages, send_ok) ==
    /\ response' = resp
    /\ sent' = IF send_ok THEN Append(sent, send_response(resp, identity)) ELSE sent
    /\ exc' = IF send_ok THEN "none" ELSE "ZMQError"
    /\ calls' = stages \cup {"send"}
    /\ spc' = "finally"

\* The error response of the service for a failed transcribe(): the
\* service's prefix, transcribe's own prefix, then the cause.
TranscribeError(request_id, cause) ==
    create_error(request_id, <<"Transcription failed", "Transcription failed", cause>>)

\* ------------------------------------------------------ receive_request
\* The poll times out: receive_request returns None and the call returns
\* through its finally.
ReceiveNone ==
    /\ spc = "recv"
    /\ outcome' = "no_message"
    /\ spc' = "finally"
    /\ UNCHANGED <<running, message_parts, cur, temp_file, response, exc, sent, calls,
                   net_vars, files, mm_vars, eng_vars, thr_vars, env_vars>>
    /\ UNCHANGED ext_vars

\* ------------------------------------------------ _process_one_request
\* A message is there.  recv_multipart gives [identity, ..., data] and the
\* last frame is decoded: a ValueError is raised again for the handlers of
\* _process_one_request, any other exception is logged and None returned.
\* A decoded request is validated (an error response on failure, a raised
\* exception to the handlers), then admitted by validate_and_process (an
\* error response on rejection), and then transcribe() is entered, which
\* reads its start time.
ReceiveRequest ==
    /\ spc = "recv"
    /\ polled < MaxRequests
    /\ polled' = polled + 1
    /\ \E m \in Messages :
         LET identity == m.identity
             data == m.data
             d == deserialize_audio_request(data)
             req == d.request
             v == validate(req)
         IN /\ message_parts' = m
            /\ CASE d.raises # "none" ->
                   /\ exc' = IF d.raises = "ValueError" THEN "ValueError" ELSE "none"
                   /\ outcome' = "decode_error"
                   /\ spc' = "finally"
                   /\ UNCHANGED <<cur, temp_file, response, sent, calls, files, start_time>>
              [] d.raises = "none" /\ v.raises # "none" ->
                   /\ cur' = [identity |-> identity, request |-> req]
                   /\ exc' = v.raises
                   /\ outcome' = "validation_raised"
                   /\ calls' = {"validate"}
                   /\ spc' = "finally"
                   /\ UNCHANGED <<temp_file, response, sent, files, start_time>>
              [] d.raises = "none" /\ v.raises = "none" /\ ~v.is_valid ->
                   /\ cur' = [identity |-> identity, request |-> req]
                   /\ outcome' = "validation_error"
                   /\ \E send_ok \in BOOLEAN :
                        Respond(create_error(req.request_id,
                                   <<"Request validation failed", v.error_msg>>),
                                identity, {"validate"}, send_ok)
                   /\ UNCHANGED <<temp_file, files, start_time>>
              [] OTHER ->
                   /\ cur' = [identity |-> identity, request |-> req]
                   /\ \E write_ok \in BOOLEAN, mono_ok \in BOOLEAN :
                        LET r == validate_and_process(req.audio_data, convert_to_mono,
                                                      files, write_ok, mono_ok)
                        IN /\ files' = r.fs
                           /\ temp_file' = r.temp_file
                           /\ IF r.is_valid
                                THEN /\ calls' = {"validate", "admit"}
                                     /\ start_time' = now
                                     /\ outcome' = "in_progress"
                                     /\ spc' = "get_model"
                                     /\ UNCHANGED <<response, exc, sent>>
                                ELSE /\ outcome' = "admission_rejected"
                                     /\ \E send_ok \in BOOLEAN :
                                          Respond(create_error(req.request_id,
                                                     <<"Audio validation failed", r.error_msg>>),
                                                  identity, {"validate", "admit"}, send_ok)
                                     /\ UNCHANGED start_time
    /\ UNCHANGED <<running, sockets_open, mm_vars, handle, results, thr_vars, env_vars>>
    /\ UNCHANGED ext_vars

\* ------------------------------------------------ ModelManager.get_model
\* with self._lock:
GetModelLock ==
    /\ spc = "get_model"
    /\ CanAcquire("svc")
    /\ lock_owner' = "svc"
    /\ calls' = calls \cup {"get_model"}
    /\ spc' = "gm_load"
    /\ UNCHANGED <<running, message_parts, cur, temp_file, response, exc, outcome, sent,
                   net_vars, files, model, last_used_time, mm_running, eng_vars,
                   thr_vars, env_vars>>
    /\ UNCHANGED ext_vars

\* if self._model is None: self._load_model().  A failed load raises
\* through get_model (the lock is released) and transcribe() to the
\* service, which answers with an error response.
GetModelLoad ==
    /\ spc = "gm_load"
    /\ \/ /\ model # None
          /\ spc' = "gm_return"
          /\ UNCHANGED <<model, last_used_time, lock_owner, response, exc, outcome,
                         sent, calls, start_time>>
       \/ /\ model = None
          /\ model' = _load_model(model, TRUE)
          /\ last_used_time' = now
          /\ spc' = "gm_return"
          /\ UNCHANGED <<lock_owner, response, exc, outcome, sent, calls, start_time>>
       \/ /\ model = None
          /\ lock_owner' = Release("svc")
          /\ outcome' = "load_error"
          /\ start_time' = 0
          /\ \E send_ok \in BOOLEAN :
               Respond(TranscribeError(cur.request.request_id, "Model loading failed"),
                       cur.identity, calls, send_ok)
          /\ model' = _load_model(model, FALSE)
          /\ UNCHANGED last_used_time
    /\ UNCHANGED <<running, message_parts, cur, temp_file, net_vars, files,
                   mm_running, handle, results, thr_vars, env_vars>>
    /\ UNCHANGED ext_vars

\* A get_model whose caller hands the inference to a worker and goes back
\* to the loop at once.
GetModelReturn_async ==
    /\ spc = "gm_return"
    /\ last_used_time' = now
    /\ handle' = model
    /\ lock_owner' = Release("svc")
    /\ spc' = "finally"
    /\ UNCHANGED <<running, message_parts, cur, temp_file, response, exc, outcome, sent, calls,
                   net_vars, files, model, mm_running, start_time, results, thr_vars,
                   env_vars>>
    /\ UNCHANGED ext_vars

\* self._last_used_time = time.time(); return self._model
GetModelReturn ==
    /\ spc = "gm_return"
    /\ last_used_time' = now
    /\ handle' = model
    /\ lock_owner' = Release("svc")
    /\ spc' = "infer"
    /\ UNCHANGED <<running, message_parts, cur, temp_file, response, exc, outcome, sent, calls,
                   net_vars, files, model, mm_running, start_time, results, thr_vars,
                   env_vars>>
    /\ UNCHANGED ext_vars

\* -------------------------------------------- TranscriptionEngine.transcribe
\* model.transcribe([path]) returns; the result becomes the response,
\* which is sent.  Any exception (a None model included) becomes
\* RuntimeError and an error response.
Transcribe ==
    /\ spc = "infer"
    /\ \E o \in InferenceOutcomes, send_ok \in BOOLEAN :
       /\ results' = IF handle # None THEN o ELSE NoResults
       /\ IF handle # None /\ o.kind \in {"hyp", "str"}
           THEN /\ outcome' = "success"
                /\ Respond(create_success(cur.request.request_id, o.text,
                                          Measured(now - start_time), o.score),
                           cur.identity, calls \cup {"transcribe"}, send_ok)
           ELSE /\ outcome' = "inference_error"
                /\ Respond(TranscribeError(cur.request.request_id,
                              IF handle = None THEN "NoneType"
                              ELSE IF o.kind = "empty" THEN "empty results"
                              ELSE "engine error"),
                           cur.identity, calls \cup {"transcribe"}, send_ok)
    /\ handle' = None
    /\ start_time' = 0
    /\ UNCHANGED <<running, message_parts, cur, temp_file, net_vars, files,
                   mm_vars, thr_vars, env_vars>>
    /\ UNCHANGED ext_vars

\* A call that catches ValueError alone.
Handled_ValueError_only(e) == e = "ValueError"

\* The except clauses of _process_one_request: ValueError, then Exception.
ExceptionClasses == {"ValueError", "TypeError", "RuntimeError", "ZMQError"}
Handled(e) == e = "ValueError" \/ e \in ExceptionClasses

\* finally: the temporary file is removed and the call returns, its
\* locals gone; a handled exception ends here, an unhandled one would
\* leave the loop through run()'s handler.
Finally ==
    /\ spc = "finally"
    /\ files' = cleanup_temp_file(files, temp_file)
    /\ spc' = IF exc # "none" /\ ~Handled(exc) THEN "stop_monitoring" ELSE "loop"
    /\ message_parts' = NoMessage
    /\ cur' = NoCur /\ temp_file' = None /\ response' = NoResponse
    /\ exc' = "none" /\ sent' = << >> /\ calls' = {}
    /\ results' = NoResults
    /\ UNCHANGED <<running, outcome, net_vars, mm_vars, handle, start_time, thr_vars,
                   env_vars>>
    /\ UNCHANGED ext_vars

\* ------------------------------------------------------------ cleanup()
\* stop_monitoring(): the flag is cleared; join waits two seconds at most.
StopMonitoring ==
    /\ spc = "stop_monitoring"
    /\ mm_running' = FALSE
    /\ spc' = "zmq_cleanup"
    /\ UNCHANGED <<running, message_parts, cur, temp_file, response, exc, outcome, sent, calls,
                   net_vars, files, model, last_used_time, lock_owner, eng_vars,
                   thr_vars, env_vars>>
    /\ UNCHANGED ext_vars

\* zmq_handler.cleanup(): both sockets are closed.
ZmqCleanup ==
    /\ spc = "zmq_cleanup"
    /\ sockets_open' = FALSE
    /\ spc' = "stopped"
    /\ UNCHANGED <<running, message_parts, cur, temp_file, response, exc, outcome, sent, calls,
                   polled, files, mm_vars, eng_vars,
                   thr_vars, env_vars>>
    /\ UNCHANGED ext_vars

\* --------------------------------------------- ModelManager._monitor_timeout
\* After an iteration the thread sleeps again while _running holds.
MonitorNext == IF mm_running THEN "sleep" ELSE "done"

\* time.sleep(check_interval) returns; if not self._running: break
MonitorWake ==
    /\ Alive
    /\ mpc = "sleep"
    /\ now >= wake
    /\ mpc' = IF mm_running THEN "lock" ELSE "done"
    /\ UNCHANGED <<svc_vars, net_vars, files, mm_vars, eng_vars, wake,
                   env_vars>>
    /\ UNCHANGED ext_vars

\* An idle test that waits until the timeout is exceeded.
IdleExpired_strict == model # None /\ now - last_used_time > timeout_seconds

\* The idle test of the monitor, made while it holds the lock.
IdleExpired == model # None /\ now - last_used_time >= timeout_seconds

\* with self._lock: the idle time is compared with the timeout and, when
\* it is reached, _deallocate_model() clears the slot (the lock is taken
\* again, it is re-entrant).  The block runs under the lock, so it is one
\* step.
MonitorCheck ==
    /\ Alive
    /\ mpc = "lock"
    /\ CanAcquire("mon")
    /\ \/ /\ IdleExpired
          /\ model' = _deallocate_model(model)
       \/ /\ ~IdleExpired
          /\ UNCHANGED model
    /\ mpc' = MonitorNext
    /\ wake' = now + check_interval
    /\ UNCHANGED <<svc_vars, net_vars, files, last_used_time, lock_owner, mm_running,
                   eng_vars, env_vars>>
    /\ UNCHANGED ext_vars

\* ------------------------------------------------ ModelManager.force_reload
\* with self._lock: self._deallocate_model(); self._load_model().  The
\* whole body runs under the lock, which every other reader of the slot
\* takes too, so it is one step: the slot holds a new instance, or the
\* load raised and the slot is empty.
force_reload ==
    /\ Alive
    /\ CanAcquire("adm")
    /\ \/ /\ model' = _load_model(_deallocate_model(model), TRUE)
          /\ last_used_time' = now
       \/ /\ model' = _load_model(_deallocate_model(model), FALSE)
          /\ UNCHANGED last_used_time
    /\ UNCHANGED <<svc_vars, net_vars, files, lock_owner, mm_running, eng_vars,
                   thr_vars, env_vars>>
    /\ UNCHANGED ext_vars

\* ------------------------------------------------------------ the clock
Tick ==
    /\ Alive
    /\ now < MaxTime
    /\ now' = now + 1
    /\ UNCHANGED <<svc_vars, net_vars, files, mm_vars, eng_vars, thr_vars,
                   signalled, timeout_minutes, convert_to_mono>>
    /\ UNCHANGED ext_vars

\* ------------------------------------------------------------ STTClient
\* The responses the service may have sent, and what else can reach the
\* client's socket: bytes that are no msgpack, a msgpack list, a map that
\* lacks a required key, a map with the required keys alone.
ResponsePool ==
    { create_success("r1", "hello world", Measured(1), "0.97"),
      create_success("r2", "hello", Measured(0), "None"),
      create_error("r1", <<"Audio validation failed", "Invalid sample rate">>) }
ClientPayloads ==
    { serialize_transcription_response(r) : r \in ResponsePool } \cup
    { [kind |-> "invalid", keys |-> {}, body |-> NoResponse],
      [kind |-> "list", keys |-> {}, body |-> NoResponse],
      [kind |-> "map", keys |-> {"request_id", "status"},
       body |-> serialize_transcription_response(
                    create_success("r1", "hello world", Measured(1), "0.97")).body],
      [kind |-> "map", keys |-> ResponseRequiredKeys,
       body |-> serialize_transcription_response(
                    create_success("r1", "hello world", Measured(1), "0.97")).body] }

\* A receive() without handlers: whatever decoding raises leaves the call.
ClientHandled_nothing(e) == FALSE

\* The except clauses of receive(): ValueError, then Exception.
ClientHandled(e) == e = "ValueError" \/ e \in ExceptionClasses

\* The body of receive() on a bound socket: nothing there within the
\* timeout gives None; otherwise the last part of the message is decoded,
\* and a handled exception gives None as well.
ReceiveOutcome ==
    IF inbox = << >>
      THEN [raises |-> "none", response |-> NoResponse]
      ELSE LET d == try_deserialize_transcription_response(Head(inbox).data)
           IN IF d.raises # "none" /\ ClientHandled(d.raises)
                THEN [raises |-> "none", response |-> NoResponse]
                ELSE d

\* Everything outside the client.
nonclient_vars == <<proc_vars, obs_vars, cfg_vars, api_vars>>

\* connect() without its test of the socket: it binds a new one every time.
AlreadyConnected_never == client_socket = "none" /\ client_socket # "none"

\* connect(): a no-op when already connected, else the socket is bound.
AlreadyConnected == client_socket # "none"

connect ==
    /\ called' = "connect"
    /\ client_socket' = IF AlreadyConnected THEN client_socket ELSE "bound"
    /\ inbox' = IF AlreadyConnected THEN inbox ELSE << >>
    /\ UNCHANGED <<client_running, arrived, taken, cpc, received, delivered,
                   client_exc>>
    /\ UNCHANGED nonclient_vars

\* A message of the service's DEALER reaches the bound ROUTER socket,
\* which puts the peer's identity in front of the frame.
Arrive ==
    /\ client_socket = "bound"
    /\ arrived < MaxFrames
    /\ arrived' = arrived + 1
    /\ \E d \in ClientPayloads :
         inbox' = Append(inbox, [identity |-> "stt", data |-> d])
    /\ UNCHANGED <<client_socket, client_running, taken, called, cpc, received,
                   delivered, client_exc>>
    /\ UNCHANGED nonclient_vars

\* receive() called by the application itself.
receive ==
    /\ cpc = "idle"
    /\ called' = "receive"
    /\ IF client_socket = "none"
         THEN /\ client_exc' = "RuntimeError"
              /\ UNCHANGED <<inbox, taken, received>>
         ELSE /\ client_exc' = ReceiveOutcome.raises
              /\ received' = ReceiveOutcome.response
              /\ inbox' = IF inbox = << >> THEN inbox ELSE Tail(inbox)
              /\ taken' = IF inbox = << >> THEN taken ELSE taken + 1
    /\ UNCHANGED <<client_socket, client_running, arrived, cpc, delivered>>
    /\ UNCHANGED nonclient_vars

\* listen(callback) is entered: RuntimeError without a socket, else
\* _running is set and the loop begins.
listen ==
    /\ cpc = "idle"
    /\ called' = "listen"
    /\ IF client_socket = "none"
         THEN /\ client_exc' = "RuntimeError"
              /\ UNCHANGED <<client_running, cpc>>
         ELSE /\ client_exc' = "none"
              /\ client_running' = TRUE
              /\ cpc' = "test"
    /\ UNCHANGED <<client_socket, inbox, arrived, taken, received, delivered>>
    /\ UNCHANGED nonclient_vars

\* while self._running: the loop goes on, or listen returns through its
\* finally.
ListenTest ==
    /\ cpc = "test"
    /\ cpc' = IF client_running THEN "recv" ELSE "idle"
    /\ client_running' = client_running
    /\ UNCHANGED <<client_socket, inbox, arrived, taken, called, received, delivered,
                   client_exc>>
    /\ UNCHANGED nonclient_vars

\* One iteration: receive(), and the callback for a response.  What the
\* callback raises is caught; what receive() raises leaves listen through
\* its finally.
ListenReceive ==
    /\ cpc = "recv"
    /\ IF client_socket = "none" \/ ReceiveOutcome.raises # "none"
         THEN /\ client_exc' = IF client_socket = "none" THEN "RuntimeError"
                               ELSE ReceiveOutcome.raises
              /\ client_running' = FALSE
              /\ cpc' = "idle"
              /\ inbox' = IF client_socket = "none" \/ inbox = << >> THEN inbox
                          ELSE Tail(inbox)
              /\ taken' = IF client_socket = "none" \/ inbox = << >> THEN taken
                          ELSE taken + 1
              /\ UNCHANGED <<received, delivered>>
         ELSE /\ received' = ReceiveOutcome.response
              /\ inbox' = IF inbox = << >> THEN inbox ELSE Tail(inbox)
              /\ taken' = IF inbox = << >> THEN taken ELSE taken + 1
              /\ delivered' = IF ReceiveOutcome.response # NoResponse
                                THEN Append(delivered, ReceiveOutcome.response)
                                ELSE delivered
              /\ cpc' = "test"
              /\ UNCHANGED <<client_running, client_exc>>
    /\ UNCHANGED <<client_socket, arrived, called>>
    /\ UNCHANGED nonclient_vars

\* stop(), from the callback or another thread.
stop ==
    /\ called' = "stop"
    /\ client_running' = FALSE
    /\ UNCHANGED <<client_socket, inbox, arrived, taken, cpc, received, delivered,
                   client_exc>>
    /\ UNCHANGED nonclient_vars

\* disconnect(): the flag is cleared, the socket closed (what waited on
\* it is gone) and forgotten.
disconnect ==
    /\ called' = "disconnect"
    /\ client_running' = FALSE
    /\ client_socket' = "none"
    /\ inbox' = << >>
    /\ UNCHANGED <<arrived, taken, cpc, received, delivered, client_exc>>
    /\ UNCHANGED nonclient_vars

\* The downstream client alone, fed by the network.
InitClientSpec ==
    /\ InitProcess /\ timeout_minutes = 1 /\ convert_to_mono = FALSE
    /\ InitObservers /\ InitClient /\ InitConfig /\ NoApi
NextClient ==
    \/ connect \/ Arrive \/ receive \/ listen \/ ListenTest \/ ListenReceive
    \/ stop \/ disconnect
SpecClient == InitClientSpec /\ [][NextClient]_vars

\* An application that only listens (example_consumer.main): receive() is
\* called by the loop of listen() alone.
NextListen ==
    \/ connect \/ Arrive \/ listen \/ ListenTest \/ ListenReceive
    \/ stop \/ disconnect
SpecListen == InitClientSpec /\ [][NextListen]_vars

\* ------------------------------------------------------ configuration
\* Addresses a shell or a command line may give; the empty string is a
\* value like any other (neither os.getenv nor `is not None` rejects it).
AddressChoices == {"tcp://*:5555", "tcp://*:9999", ""}
OutputChoices == {"tcp://localhost:5556", "tcp://*:7000"}
Settings == {Unset} \cup { Given(a) : a \in AddressChoices }

\* A lookup that never consults the environment.
os_getenv_ignored(key, default) == default

\* os.getenv(key, default): the variable's value when it is set.
os_getenv(key, default) ==
    IF environ[key].set THEN environ[key].value ELSE default

\* The shell exports or unsets a variable before the service is started.
setenv ==
    /\ ~config.built
    /\ \E key \in DOMAIN environ, a \in AddressChoices :
         environ' = [environ EXCEPT ![key] = Given(a)]
    /\ UNCHANGED <<options, config, proc_vars, obs_vars, client_vars, api_vars>>

unsetenv ==
    /\ ~config.built
    /\ \E key \in DOMAIN environ :
         /\ environ[key].set
         /\ environ' = [environ EXCEPT ![key] = Unset]
    /\ UNCHANGED <<options, config, proc_vars, obs_vars, client_vars, api_vars>>

\* STTConfig(**kwargs): a field named in kwargs takes that value, any other
\* field runs its default_factory, which reads the environment.
STTConfig(kwargs) ==
    [input_address |->
         IF kwargs.input_address.set THEN kwargs.input_address.value
         ELSE os_getenv("STT_INPUT_ADDRESS", "tcp://localhost:20499"),
     output_address |->
         IF kwargs.output_address.set THEN kwargs.output_address.value
         ELSE os_getenv("LLM_RAG_PIPE_INPUT_ADDRESS", "tcp://localhost:25000"),
     built |-> TRUE]

\* The config_kwargs of `start`: output_address always, input_address only
\* when the option was given.
config_kwargs(opts) ==
    [output_address |-> Given(opts.output_address),
     input_address |-> IF opts.input_address.set THEN opts.input_address
                       ELSE Unset]

\* `stt start [--input-address A] [--output-address B]`: the options are
\* parsed and the configuration is built from them.
start ==
    /\ ~config.built
    /\ \E i \in Settings, o \in OutputChoices :
         /\ options' = [input_address |-> i, output_address |-> o]
         /\ config' = STTConfig(config_kwargs(options'))
    /\ UNCHANGED <<environ, proc_vars, obs_vars, client_vars, api_vars>>

\* The command line and the environment it is started in.
NextConfig == setenv \/ unsetenv \/ start
SpecConfig == InitClientSpec /\ [][NextConfig]_vars

\* ------------------------------------- other callers of the ModelManager
\* force_reload(), statement by statement.  with self._lock:
\* self._deallocate_model() -- the slot is cleared and the lock stays held.
ReloadBegin ==
    /\ Alive
    /\ apc = "idle"
    /\ CanAcquire("adm")
    /\ lock_owner' = "adm"
    /\ model' = _deallocate_model(model)
    /\ apc' = "load"
    /\ UNCHANGED <<svc_vars, net_vars, files, last_used_time, mm_running, eng_vars,
                   thr_vars, env_vars, opc, seen, client_vars, cfg_vars, api_vars>>

\* self._load_model(), then the with block ends: the slot holds a new
\* instance stamped now, or the load raised and the slot stays empty; the
\* lock is released either way.
ReloadLoad ==
    /\ apc = "load"
    /\ \E ok \in BOOLEAN :
         /\ model' = _load_model(model, ok)
         /\ last_used_time' = IF ok THEN now ELSE last_used_time
    /\ lock_owner' = Release("adm")
    /\ apc' = "idle"
    /\ UNCHANGED <<svc_vars, net_vars, files, mm_running, eng_vars,
                   thr_vars, env_vars, opc, seen, client_vars, cfg_vars, api_vars>>

\* A thread calls is_loaded() and arrives at `with self._lock`.
IsLoadedCall ==
    /\ Alive
    /\ opc = "idle"
    /\ opc' = "waiting"
    /\ UNCHANGED <<proc_vars, apc, seen, client_vars, cfg_vars, api_vars>>

\* The lock is granted, `self._model is not None` is read and returned,
\* the lock is released.
IsLoadedReturn ==
    /\ opc = "waiting"
    /\ CanAcquire("obs")
    /\ seen' = IF is_loaded THEN "true" ELSE "false"
    /\ opc' = "idle"
    /\ UNCHANGED <<proc_vars, apc, client_vars, cfg_vars, api_vars>>

\* The service loop, the monitor, a thread that reloads and a thread that
\* asks is_loaded, under one configuration.
NextManager ==
    \/ SetupOk \/ SetRunning \/ LoopCheck \/ ReceiveNone \/ ReceiveRequest
    \/ GetModelLock \/ GetModelLoad \/ GetModelReturn \/ Transcribe \/ Finally
    \/ MonitorWake \/ MonitorCheck \/ Tick
    \/ ReloadBegin \/ ReloadLoad \/ IsLoadedCall \/ IsLoadedReturn
SpecManager == InitManager /\ [][NextManager]_vars

\* The service in its loop with one message left to poll: setup() and
\* start_monitoring() are done at time 0, the messages polled so far were
\* dropped as undecodable, no engine is loaded yet.
InitLock ==
    /\ spc = "loop" /\ running = TRUE
    /\ message_parts = NoMessage /\ cur = NoCur /\ temp_file = None
    /\ response = NoResponse /\ exc = "none" /\ outcome = "decode_error"
    /\ sent = << >> /\ calls = {}
    /\ polled = MaxRequests - 1 /\ sockets_open = TRUE
    /\ files = EmptyFs
    /\ model = None /\ last_used_time = 0 /\ lock_owner = "none"
    /\ mm_running = TRUE
    /\ handle = None /\ start_time = 0 /\ results = NoResults
    /\ mpc = "sleep" /\ wake = check_interval
    /\ now = 0 /\ signalled = FALSE
    /\ timeout_minutes = 1 /\ convert_to_mono = FALSE
    /\ InitObservers /\ NoClient /\ NoLauncher /\ NoApi

\* ------------------------------------------ the monitor, lock by lock
\* _monitor_timeout's `with self._lock:` -- the monitor takes the lock.
MonitorEnter ==
    /\ Alive
    /\ mpc = "lock"
    /\ CanAcquire("mon")
    /\ lock_owner' = "mon"
    /\ mpc' = "held"
    /\ UNCHANGED <<svc_vars, net_vars, files, model, last_used_time, mm_running,
                   eng_vars, wake, env_vars>>
    /\ UNCHANGED ext_vars

\* The body of the with block: when the idle time has reached the timeout
\* _deallocate_model() is called, which takes the lock a second time while
\* the monitor holds it; then the block ends and the lock is released.
MonitorLeave ==
    /\ mpc = "held"
    /\ IdleExpired => CanAcquire("mon")
    /\ model' = IF IdleExpired THEN _deallocate_model(model) ELSE model
    /\ lock_owner' = Release("mon")
    /\ mpc' = MonitorNext
    /\ wake' = now + check_interval
    /\ UNCHANGED <<svc_vars, net_vars, files, last_used_time, mm_running,
                   eng_vars, env_vars>>
    /\ UNCHANGED ext_vars

\* The callers of the manager with every `with self._lock` of the monitor
\* a step of its own.
NextLock ==
    \/ LoopCheck \/ ReceiveNone \/ ReceiveRequest
    \/ GetModelLock \/ GetModelLoad \/ GetModelReturn \/ Transcribe \/ Finally
    \/ MonitorWake \/ MonitorEnter \/ MonitorLeave \/ Tick
    \/ ReloadBegin \/ ReloadLoad \/ IsLoadedCall \/ IsLoadedReturn

\* Scheduling: a thread inside the lock goes on (loading terminates), and
\* a thread that waits for a lock which is released again and again is
\* granted it at some time.
FairLock ==
    /\ WF_vars(GetModelLoad) /\ WF_vars(GetModelReturn)
    /\ WF_vars(ReloadLoad) /\ WF_vars(MonitorLeave)
    /\ SF_vars(GetModelLock) /\ SF_vars(IsLoadedReturn) /\ SF_vars(MonitorEnter)
SpecLock == InitLock /\ [][NextLock]_vars /\ FairLock

\* ------------------------- start_monitoring and stop_monitoring, called
\* in any order on one ModelManager.  Each thread started is an entry of
\* monitor_threads: where it is in _monitor_timeout and when its sleep
\* ends.
InitMonitors ==
    /\ InitProcess
    /\ timeout_minutes \in TimeoutChoices
    /\ convert_to_mono = FALSE
    /\ InitObservers /\ NoClient /\ NoLauncher
    /\ monitor_threads = << >> /\ dataset = None

\* start_monitoring(): nothing when _running is set; else the flag is set
\* and a new daemon thread is started, which goes to sleep.
start_monitoring ==
    /\ ~mm_running => Len(monitor_threads) < MaxThreads
    /\ IF mm_running
         THEN UNCHANGED <<mm_running, monitor_threads>>
         ELSE /\ mm_running' = TRUE
              /\ monitor_threads' = Append(monitor_threads,
                                           [pc |-> "sleep", wake |-> now + check_interval])
    /\ UNCHANGED <<svc_vars, net_vars, files, model, last_used_time, lock_owner,
                   eng_vars, thr_vars, env_vars>>
    /\ UNCHANGED <<obs_vars, client_vars, cfg_vars, dataset>>

\* stop_monitoring(): the flag is cleared and the last thread is joined
\* for two seconds at most; the call returns whether or not the thread,
\* which sleeps a minute at a time, has ended.
stop_monitoring ==
    /\ mm_running' = FALSE
    /\ UNCHANGED <<svc_vars, net_vars, files, model, last_used_time, lock_owner,
                   eng_vars, thr_vars, env_vars>>
    /\ UNCHANGED <<obs_vars, client_vars, cfg_vars, api_vars>>

\* A thread's sleep returns: it ends when _running is clear, else it goes
\* on to its check.
ThreadWake ==
    /\ \E i \in 1..Len(monitor_threads) :
         /\ monitor_threads[i].pc = "sleep"
         /\ now >= monitor_threads[i].wake
         /\ monitor_threads' = [monitor_threads EXCEPT
                                  ![i].pc = IF mm_running THEN "lock" ELSE "done"]
    /\ UNCHANGED <<svc_vars, net_vars, files, mm_vars, eng_vars, thr_vars, env_vars>>
    /\ UNCHANGED <<obs_vars, client_vars, cfg_vars, dataset>>

\* A thread's check under the lock: an engine idle for the timeout is
\* released; then the loop test sends it to sleep again or ends it.
ThreadCheck ==
    /\ \E i \in 1..Len(monitor_threads) :
         /\ monitor_threads[i].pc = "lock"
         /\ CanAcquire("mon")
         /\ model' = IF IdleExpired THEN _deallocate_model(model) ELSE model
         /\ monitor_threads' = [monitor_threads EXCEPT
                                  ![i] = [pc |-> MonitorNext,
                                          wake |-> now + check_interval]]
    /\ UNCHANGED <<svc_vars, net_vars, files, last_used_time, lock_owner, mm_running,
                   eng_vars, thr_vars, env_vars>>
    /\ UNCHANGED <<obs_vars, client_vars, cfg_vars, dataset>>

\* The manager with its monitoring started and stopped at will, an engine
\* that is (re)loaded at will, and the clock.
NextMonitors ==
    \/ start_monitoring \/ stop_monitoring \/ ThreadWake \/ ThreadCheck
    \/ force_reload \/ Tick
SpecMonitors == InitMonitors /\ [][NextMonitors]_vars

\* --------------------------------------------------- DatasetGenerator
\* File ids: two .wav files that may be in the directory and one whose
\* file is gone.
WavIds == {"a", "b"}
FileIds == WavIds \cup {"gone"}

\* What the metadata file may hold before a run, line by line (a line is
\* "file_id|transcription"; the id is what is read back from it).
PriorMetadata == { << >>, <<"a">>, <<"b">>, <<"a", "b">>, <<"gone", "a">> }

\* The directory, the ledger (table transcriptions, keyed by file_id) and
\* the metadata file before generate() is called; no run has been made.
InitDataset ==
    /\ dataset \in
         { d \in
             { [wavs |-> w, ledger |-> l, metadata_exists |-> e, metadata |-> m,
                pc |-> "idle", runs |-> 0, transcribed |-> {}, todo |-> {},
                before |-> {}, ran |-> {}, failed |-> FALSE] :
               w \in SUBSET WavIds, l \in SUBSET FileIds, e \in BOOLEAN,
               m \in PriorMetadata } :
           d.metadata_exists \/ d.metadata = << >> }
    /\ monitor_threads = None
    /\ InitProcess /\ timeout_minutes = 1 /\ convert_to_mono = FALSE
    /\ InitObservers /\ NoClient /\ NoLauncher

\* _get_metadata_file_ids: the ids of the lines of the metadata file.
_get_metadata_file_ids(d) == { d.metadata[i] : i \in 1..Len(d.metadata) }

\* _cleanup_orphaned_entries: the rows whose id is not in the metadata
\* file are deleted.
_cleanup_orphaned_entries(d) ==
    [d EXCEPT !.ledger = d.ledger \cap _get_metadata_file_ids(d)]

\* _save_transcription: INSERT OR REPLACE of the row, then one line is
\* appended to the metadata file.
_save_transcription(d, file_id) ==
    [d EXCEPT !.ledger = d.ledger \cup {file_id},
              !.metadata = Append(d.metadata, file_id)]

\* Whether transcription_engine.transcribe is called for a file: not when
\* its id is in the rows read at the start of the run.
AlreadyTranscribed(d, file_id) == file_id \in d.transcribed

dataset_unchanged == UNCHANGED <<proc_vars, obs_vars, client_vars, cfg_vars, monitor_threads>>

\* generate() up to its loop: the table is created, the .wav files are
\* listed (the call returns when there is none), the rows are read, the
\* metadata file is created when missing, the orphaned rows are deleted.
generate ==
    /\ dataset.pc = "idle"
    /\ dataset.runs < MaxRuns
    /\ dataset' =
         IF dataset.wavs = {}
           THEN [dataset EXCEPT !.pc = "done", !.runs = @ + 1, !.failed = FALSE,
                                !.ran = {}, !.before = {}, !.transcribed = {}]
           ELSE [_cleanup_orphaned_entries(
                    [dataset EXCEPT !.metadata_exists = TRUE,
                                    !.transcribed = dataset.ledger])
                 EXCEPT !.pc = "loop", !.runs = @ + 1, !.failed = FALSE,
                        !.ran = {}, !.todo = dataset.wavs,
                        !.before = dataset.ledger \cap _get_metadata_file_ids(dataset)]
    /\ dataset_unchanged

\* One file of the loop: skipped when already transcribed; else it is
\* transcribed and saved, or the transcription raises, which is reported
\* and the loop goes on.
GenerateFile ==
    /\ dataset.pc = "loop"
    /\ \E f \in dataset.todo :
         LET d == [dataset EXCEPT !.todo = @ \ {f}]
         IN  \/ /\ AlreadyTranscribed(dataset, f)
                /\ dataset' = d
             \/ /\ ~AlreadyTranscribed(dataset, f)
                /\ \E ok \in BOOLEAN :
                     dataset' = IF ok
                                  THEN [_save_transcription(d, f) EXCEPT !.ran = @ \cup {f}]
                                  ELSE [d EXCEPT !.failed = TRUE]
    /\ dataset_unchanged

\* The loop is through: the summary is printed and generate() returns.
GenerateReturn ==
    /\ dataset.pc = "loop"
    /\ dataset.todo = {}
    /\ dataset' = [dataset EXCEPT !.pc = "done"]
    /\ dataset_unchanged

\* The command is run again on the same directory.
GenerateAgain ==
    /\ dataset.pc = "done"
    /\ dataset.runs < MaxRuns
    /\ dataset' = [dataset EXCEPT !.pc = "idle"]
    /\ dataset_unchanged

NextDataset == generate \/ GenerateFile \/ GenerateReturn \/ GenerateAgain
SpecDataset == InitDataset /\ [][NextDataset]_vars

\* ------------------------------------------------------ specifications
ServiceStep ==
    \/ SetupOk \/ SetupFails \/ SetRunning \/ LoopCheck
    \/ ReceiveNone \/ ReceiveRequest
    \/ GetModelLock \/ GetModelLoad \/ GetModelReturn \/ Transcribe
    \/ Finally \/ StopMonitoring \/ ZmqCleanup
MonitorStep == MonitorWake \/ MonitorCheck
ReloadStep == force_reload
EnvStep == Signal \/ Tick

\* The service and its monitor thread.
NextService == ServiceStep \/ MonitorStep \/ EnvStep
SpecService == Init /\ [][NextService]_vars

\* The same with a thread that calls force_reload.
Next == ServiceStep \/ MonitorStep \/ ReloadStep \/ EnvStep
Spec == Init /\ [][Next]_vars

\* ================================================================ claims
\* C1: every request that was received and decoded gets exactly one
\* response, and that response carries the request's request_id, whichever
\* branch the call took (send failures set aside).
C1_ExactlyOneResponse ==
    (spc = "finally" /\ Decoded /\ exc # "ZMQError") =>
        /\ Len(sent) = 1
        /\ sent[1].frames[1].body.request_id = cur.request.request_id

\* C2: the engine is never released while a handle to it is checked out
\* for inference: while model.transcribe runs, the manager's slot still
\* holds the instance that get_model returned.
C2_NoReleaseMidUse ==
    (spc = "infer" /\ handle # None) => model = handle

\* C3: at any moment at most one engine instance is alive, counting the
\* one in the manager's slot and the one an inference still uses.
C3_AtMostOneLiveEngine ==
    Cardinality(Live) <= 1

\* C4: get_model never returns None: when it returns, the caller holds a
\* loaded engine; when the load fails the call ends in an error and no
\* inference was made.
C4_GetModelNeverNone ==
    /\ spc = "gm_return" => model # None
    /\ spc = "infer" => handle # None
    /\ (spc = "finally" /\ outcome = "load_error") =>
          (handle = None /\ "transcribe" \notin calls /\ response.status = "error")
C4_Witness ==
    spc = "infer" /\ handle # None /\ mpc = "lock" /\ timeout_minutes = 0

\* C5: a decoded request with any of the four validation defects (empty
\* request_id, format other than wav/flac, non-positive sample_rate, empty
\* audio_data) is answered with an error response and reaches neither
\* admission nor inference (send failures set aside).
C5_DefectsRejected ==
    LET r == cur.request
        defective == \/ r.request_id = ""
                     \/ r.audio_format \notin {"wav", "flac"}
                     \/ (r.sample_rate.t = "int" /\ r.sample_rate.v <= 0)
                     \/ r.audio_data.n = 0
    IN  (spc = "finally" /\ Decoded /\ defective /\ exc # "ZMQError") =>
            /\ Len(sent) = 1
            /\ sent[1].frames[1].body.status = "error"
            /\ "admit" \notin calls
            /\ "transcribe" \notin calls

\* C6: no failure of one request ends the loop: a call always returns to
\* the loop, a running loop polls again, and the loop is left only after a
\* shutdown signal cleared the running flag.
C6_LoopSurvivesFailures ==
    [][ /\ spc = "finally" => spc' \in {"finally", "loop"}
        /\ (spc = "loop" /\ running /\ spc' # "loop") => spc' = "recv"
        /\ (spc = "loop" /\ ~signalled) => running
        /\ (spc' = "stop_monitoring" /\ spc # "stop_monitoring") =>
              (spc = "loop" /\ signalled) ]_vars
C6_Witness ==
    spc = "loop" /\ running /\ ~signalled /\ outcome = "inference_error"

\* C7: no temporary file outlives the call that created it: between two
\* calls of _process_one_request no temporary file exists.
C7_NoTempFileLeak ==
    spc = "loop" => DOMAIN files = {}

\* C8: a received message whose payload cannot be decoded to an
\* AudioRequest (no msgpack, no map, or a required field absent) is
\* dropped: no response is built or sent for it, no stage runs, and the
\* call ends without an exception that would leave the loop.
C8_UndecodableDropped ==
    LET data == message_parts.data
        decodable == data.kind = "map" /\ RequiredKeys \subseteq data.keys
    IN  (spc = "finally" /\ message_parts.identity # NoIdentity /\ ~decodable) =>
            /\ sent = << >>
            /\ response = NoResponse
            /\ calls = {}
            /\ ~Decoded
            /\ (exc = "none" \/ Handled(exc))
C8_Witness ==
    /\ spc = "finally"
    /\ message_parts.data.kind = "map"
    /\ "audio_data" \notin message_parts.data.keys
    /\ sent = << >>

C11_SuccessScenario ==
    (/\ spc = "finally"
     /\ cur.request = AudioRequest("r1", "wav", IntV(16000), Mono16k)
     /\ results = [kind |-> "hyp", text |-> "hello world", score |-> "0.97"]) =>
        /\ response.request_id = "r1"
        /\ response.status = "success"
        /\ response.text = "hello world"
        /\ response.confidence = "0.97"
        /\ response.error_details = << >>
        /\ exc = "none" =>
             /\ Len(sent) = 1
             /\ sent[1].socket = "output"
             /\ deserialize_transcription_response(sent[1].frames[1]) = response

C11_Witness ==
    /\ spc = "finally"
    /\ cur.request = AudioRequest("r1", "wav", IntV(16000), Mono16k)
    /\ results = [kind |-> "hyp", text |-> "hello world", score |-> "0.97"]
    /\ Len(sent) = 1
    /\ response.status = "success"

\* C12: a well-formed request "r1" whose audio is sampled at 44100 Hz
\* (whatever rate it declares) produces a response with request_id "r1",
\* status error and the rejection "Invalid sample rate" (or the staging
\* failure, when the bytes could not be written), and neither get_model
\* nor the inference is reached.
C12_ActualRateRejected ==
    (/\ spc = "finally"
     /\ cur.request.request_id = "r1"
     /\ cur.request.audio_format = "wav"
     /\ cur.request.sample_rate \in {IntV(16000), IntV(44100)}
     /\ cur.request.audio_data \in {Mono44k, Stereo44k}) =>
        /\ response.request_id = "r1"
        /\ response.status = "error"
        /\ response.error_details \in
             {<<"Audio validation failed", "Invalid sample rate">>,
              <<"Audio validation failed", "Unexpected error processing audio">>}
        /\ calls \cap {"get_model", "transcribe"} = {}
        /\ results = NoResults

C12_Witness ==
    /\ spc = "finally"
    /\ cur.request = AudioRequest("r1", "wav", IntV(44100), Mono44k)
    /\ response.error_details = <<"Audio validation failed", "Invalid sample rate">>
    /\ Len(sent) = 1

\* C12 as stated: the request of C11 with the rate 44100 declared (its
\* audio unchanged) is answered with the error "Invalid sample rate" and
\* the inference is not invoked (a failed staging write set aside).
C12_DeclaredRateRejected ==
    (/\ spc = "finally"
     /\ cur.request = AudioRequest("r1", "wav", IntV(44100), Mono16k)
     /\ response.error_details #
          <<"Audio validation failed", "Unexpected error processing audio">>) =>
        /\ response.request_id = "r1"
        /\ response.status = "error"
        /\ \E i \in 1..Len(response.error_details) :
             response.error_details[i] = "Invalid sample rate"
        /\ "transcribe" \notin calls

\* C13: an acquire that finds the slot loaded returns the instance of the
\* slot without loading and stamps the last-access time; a monitor check
\* empties the slot exactly when it is loaded and the idle time has reached
\* the timeout; an acquire that finds the slot empty loads an instance
\* again and stamps the time.
C13_EngineLifecycle ==
    [][/\ (spc = "gm_load" /\ spc' = "gm_return" /\ model # None) =>
             /\ model' = model
             /\ UNCHANGED last_used_time
       /\ (spc = "gm_return" /\ spc' = "infer") =>
             /\ model' = model
             /\ handle' = model
             /\ last_used_time' = now
       /\ (mpc = "lock" /\ mpc' # "lock") =>
             model' = IF model # None /\ now - last_used_time >= timeout_minutes
                        THEN None ELSE model
       /\ (spc = "gm_load" /\ spc' = "gm_return" /\ model = None) =>
             /\ model' # None
             /\ last_used_time' = now]_vars

\* The slot was stamped by an earlier acquire, the monitor has emptied it
\* since, and the next acquire is about to load it again.
C13_Witness ==
    /\ spc = "gm_load"
    /\ model = None
    /\ last_used_time > 0
    /\ polled = 2

\* C14: a load that fails inside get_model leaves the slot empty
\* (is_loaded false) with the lock released, and the caller gets the load
\* error; an acquire that finds the slot empty never returns without
\* loading; and the slot only ever receives an instance from a load that
\* succeeded, which stamps the time (so a failed force_reload leaves the
\* slot empty as well).
C14_FailedLoadLeavesEmpty ==
    [][/\ (spc = "gm_load" /\ spc' = "finally") =>
             /\ model = None
             /\ ~is_loaded'
             /\ lock_owner' = "none"
             /\ response'.status = "error"
             /\ response'.error_details =
                  <<"Transcription failed", "Transcription failed", "Model loading failed">>
       /\ (spc = "gm_load" /\ spc' = "gm_return") => is_loaded'
       /\ (model' # model /\ is_loaded') => last_used_time' = now]_vars

\* A failed acquire has just answered: the slot is empty, the lock free.
C14_Witness ==
    /\ spc = "finally"
    /\ outcome = "load_error"
    /\ ~is_loaded
    /\ lock_owner = "none"
    /\ response.status = "error"

\* C15: a shutdown signal does not abandon the request in flight.  While a
\* request is held the sockets stay open; the inference step always ends
\* in the response for that request, which is sent on the output socket
\* (unless the send itself fails); run() leaves the loop only from the
\* loop test, with no request held and no inference running, and the
\* sockets are closed only after that.
C15_ShutdownFinishesInFlight ==
    [][/\ (Decoded \/ handle # None) => sockets_open /\ mm_running
       /\ spc = "infer" =>
             /\ spc' \in {"infer", "finally"}
             /\ spc' = "finally" =>
                  /\ response'.status \in {"success", "error"}
                  /\ response'.request_id = cur.request.request_id
                  /\ exc' = "none" =>
                       sent' = <<[socket |-> "output",
                                  frames |-> <<serialize_transcription_response(response')>>]>>
       /\ (spc # "stop_monitoring" /\ spc' = "stop_monitoring") =>
             /\ spc = "loop"
             /\ ~running
             /\ ~Decoded /\ handle = None /\ sent = << >>
       /\ (sockets_open /\ ~sockets_open') =>
             spc = "zmq_cleanup" /\ ~Decoded /\ handle = None]_vars

\* The signal has arrived, the call is still in its body, and the response
\* of the transcription has been sent with the sockets open.
C15_Witness ==
    /\ spc = "finally"
    /\ signalled /\ ~running
    /\ outcome = "success"
    /\ Len(sent) = 1
    /\ sockets_open

\* C16: a shutdown signal delivered at any point after the handlers are
\* installed is honoured: from then on the running flag is down, so the
\* loop completes at most the current iteration and run() goes to
\* cleanup().
C16_ShutdownHonoured ==
    signalled => ~running

\* C17: when setup() fails (a bind or connect error) run() ends before the
\* loop: the flag was never raised, nothing was polled, processed or sent
\* and no monitor runs; the loop is only ever entered with the sockets
\* open; and run() ends in no other way without a shutdown signal (every
\* state of cleanup() and after it follows a signal).
C17_StartupFailureIsFatal ==
    /\ spc = "crashed" =>
         /\ ~running /\ ~signalled
         /\ polled = 0 /\ calls = {} /\ sent = << >> /\ ~Decoded
         /\ ~sockets_open
         /\ ~mm_running /\ mpc = "unstarted"
    /\ polled > 0 => spc \notin {"init", "installed", "crashed"}
    /\ spc \in {"loop", "recv", "get_model", "gm_load", "gm_return", "infer", "finally"} =>
         sockets_open /\ mm_running
    /\ spc \in {"stop_monitoring", "zmq_cleanup", "stopped"} => signalled

C17_Witness ==
    /\ spc = "crashed"
    /\ polled = 0
    /\ ~running

\* C18: at most one inference call is in flight.  An engine handle is held
\* only by the one call that is at its inference step, and the loop polls
\* again only when no handle is held, no inference result is pending and
\* the call that held the request has ended (its response sent or its
\* failure handled).
C18_OneInferenceAtATime ==
    /\ handle # None => spc = "infer" /\ Decoded /\ "transcribe" \notin calls
    /\ spc \in {"loop", "recv"} =>
         /\ handle = None
         /\ results = NoResults
         /\ ~Decoded
         /\ response = NoResponse
    /\ "transcribe" \in calls =>
         /\ spc = "finally"
         /\ handle = None
         /\ response.status \in {"success", "error"}
         /\ Len(sent) = IF exc = "none" THEN 1 ELSE 0

\* A second request is being polled after a transcription was answered.
C18_Witness ==
    /\ spc = "recv"
    /\ polled = 1
    /\ outcome = "none"
    /\ handle = None
    /\ model # None
    /\ last_used_time > 0

\* C19: every response the service builds, and every response read back
\* from a frame it sent, has status success exactly when error_details is
\* absent, and an error response has an empty text and no confidence.
C19_Emitted(r) ==
    r # NoResponse =>
        /\ r.status \in {"success", "error"}
        /\ r.status = "success" <=> r.error_details = << >>
        /\ r.status = "error" =>
             /\ r.text = ""
             /\ r.confidence = "None"
             /\ Len(r.error_details) >= 1
C19_StatusMatchesDetails ==
    /\ C19_Emitted(response)
    /\ \A i \in 1..Len(sent) :
         C19_Emitted(deserialize_transcription_response(sent[i].frames[1]))

\* An error response has been sent and is read back from its frame.
C19_Witness ==
    /\ spc = "finally"
    /\ Len(sent) = 1
    /\ deserialize_transcription_response(sent[1].frames[1]).status = "error"
    /\ deserialize_transcription_response(sent[1].frames[1]).error_details # << >>
    /\ outcome = "admission_rejected"

\* C20: decoding what was encoded gives the message back.  The request
\* the service holds is the request whose encoding was received, for every
\* request of the pool (the valid ones among them), and every frame the
\* service sent decodes to the response it was made from (success or
\* error, confidence present or absent).
C20_Encoded ==
    { <<serialize_audio_request(r), r>> : r \in RequestPool \cup OtherRequests }
C21_StereoPolicy ==
    (Decoded /\ "admit" \in calls /\ cur.request.audio_data = Stereo16k) =>
        /\ \A p \in DOMAIN files : files[p] # Stereo16k.snd
        /\ ~convert_to_mono =>
             /\ temp_file = None
             /\ spc = "finally"
             /\ response.status = "error"
             /\ response.error_details \in
                  {<<"Audio validation failed",
                     "Audio is stereo but mono conversion is disabled">>,
                   <<"Audio validation failed", "Unexpected error processing audio">>}
        /\ convert_to_mono =>
             \/ /\ temp_file # None
                /\ temp_file \in DOMAIN files
                /\ files[temp_file] = Sound(1, expected_sample_rate)
             \/ /\ temp_file = None
                /\ spc = "finally"
                /\ response.error_details =
                     <<"Audio validation failed", "Unexpected error processing audio">>

\* The stereo payload was converted: the one file there is the mono file.
C21_Witness ==
    /\ spc = "get_model"
    /\ convert_to_mono
    /\ cur.request.audio_data = Stereo16k
    /\ temp_file # None
    /\ DOMAIN files = {temp_file}
    /\ files[temp_file] = Sound(1, expected_sample_rate)

\* C25: admission hands a path to its caller exactly when it reports
\* success; after a rejection no file it created is left, and after a
\* success the one file left is the one returned.  (Stated for the first
\* call, before which no file exists.)
C25_AdmissionLeavesOneOrNone ==
    (Decoded /\ "admit" \in calls /\ polled = 1) =>
        /\ temp_file # None <=> outcome # "admission_rejected"
        /\ DOMAIN files = IF temp_file = None THEN {} ELSE {temp_file}

\* C26: admission checks the decode, then the sample rate, then the
\* channels, and stops at the first failure.  A payload that cannot be
\* read is rejected for that; a readable payload whose actual rate differs
\* from the configured rate is rejected with the sample-rate reason, stereo
\* or not and whatever the conversion setting; and a readable payload is
\* rejected with the sample-rate reason only when its rate differs.
\* (A failed write of a file is the one other outcome.)
C26_Reason ==
    IF spc = "finally" /\ outcome = "admission_rejected"
      THEN response.error_details[2] ELSE "none"
C26_AdmissionOrder ==
    (Decoded /\ "admit" \in calls
       /\ C26_Reason # "Unexpected error processing audio") =>
        LET snd == cur.request.audio_data.snd
        IN /\ ~snd.ok => C26_Reason = "Failed to read audio file"
           /\ (snd.ok /\ snd.rate # expected_sample_rate) =>
                C26_Reason = "Invalid sample rate"
           /\ (snd.ok /\ snd.rate = expected_sample_rate) =>
                C26_Reason \in {"none", "Audio is stereo but mono conversion is disabled"}

\* A stereo payload at 44100 Hz was rejected for its rate with mono
\* conversion disabled.
C26_Witness ==
    /\ spc = "finally"
    /\ cur.request.audio_data = Stereo44k
    /\ ~convert_to_mono
    /\ C26_Reason = "Invalid sample rate"

\* C27: the monitor empties the slot only in a check made while it holds
\* the lock (no acquire is between its lock and its return) and only when
\* the slot is loaded and the time since the last stamp has reached the
\* timeout: an engine stamped less than the timeout ago is never released
\* by the monitor.
C27_MonitorReleasesOnlyIdle ==
    [][(mpc = "lock" /\ mpc' # "lock" /\ model' # model) =>
          /\ model # None /\ model' = None
          /\ lock_owner = "none"
          /\ spc \notin {"gm_load", "gm_return"}
          /\ now - last_used_time >= timeout_minutes
          /\ UNCHANGED <<last_used_time, handle>>]_vars

\* With a timeout of one minute, an engine stamped at minute one or later
\* has just been released by the monitor, a minute or more after the stamp.
C27_Witness ==
    /\ timeout_minutes = 1
    /\ model = None
    /\ last_used_time > 0
    /\ now - last_used_time >= 1
    /\ mpc = "sleep"
    /\ wake = now + check_interval

\* C30: when cleanup() has returned, the monitor is stopped (its flag is
\* down and its thread has ended) and both sockets are closed.
C30_StoppedMeansMonitorEnded ==
    spc = "stopped" =>
        /\ ~mm_running
        /\ ~sockets_open
        /\ mpc = "done"

\* C22: in the client a frame that fails to decode is skipped.  The
\* receive() that takes it from the socket returns None and raises nothing,
\* the socket stays bound, and inside listen() the loop goes on with
\* _running unchanged and nothing handed to the callback; a frame that
\* decodes is handed to the callback by the iteration that takes it.
C22_HeadDecodes ==
    inbox # << >> /\ try_deserialize_transcription_response(Head(inbox).data).raises = "none"
C22_DecodeFailureIsSkipped ==
    [][(inbox # << >> /\ inbox' = Tail(inbox) /\ client_socket' = "bound") =>
          /\ client_socket = "bound"
          /\ client_exc' = "none"
          /\ ~C22_HeadDecodes =>
               /\ received' = NoResponse
               /\ delivered' = delivered
               /\ cpc = "recv" => cpc' = "test" /\ client_running' = client_running
          /\ (C22_HeadDecodes /\ cpc = "recv") =>
               /\ cpc' = "test"
               /\ received' = deserialize_transcription_response(Head(inbox).data)
               /\ delivered' = Append(delivered, received')]_vars

\* Two frames have arrived and the loop of listen() has taken both; it is
\* still running on the bound socket, and the one response handed to the
\* callback is the one the last receive() returned: the frame before it
\* was skipped.
C22_Witness ==
    /\ taken = 2
    /\ inbox = << >>
    /\ cpc = "test" /\ client_running
    /\ client_socket = "bound"
    /\ Len(delivered) = 1
    /\ received = delivered[1]


\* C23: decoding a payload fails with ValueError whenever the payload is not
\* valid structured data or is not a map holding every required key: each
\* message the service could not decode raised a ValueError, and no request
\* was populated from it.
C23_DecodeFailsWithValueError ==
    (spc = "finally" /\ outcome = "decode_error") =>
        /\ deserialize_audio_request(message_parts.data).raises = "ValueError"
        /\ deserialize_audio_request(message_parts.data).request = NoRequest


\* C24: the inbound address of a built configuration is the explicit
\* override when one was given, else the value of STT_INPUT_ADDRESS when the
\* variable is set, else tcp://localhost:20499; a lower level is used only
\* when every higher one is absent.
C24_InputAddressPriority ==
    config.built =>
        LET override == options.input_address
            env == environ.STT_INPUT_ADDRESS
        IN /\ override.set => config.input_address = override.value
           /\ (~override.set /\ env.set) => config.input_address = env.value
           /\ (~override.set /\ ~env.set) =>
                  config.input_address = "tcp://localhost:20499"

\* An override and a different environment value were both given, and the
\* configuration took the override.
C24_Witness ==
    /\ config.built
    /\ options.input_address = Given("tcp://*:9999")
    /\ environ.STT_INPUT_ADDRESS = Given("tcp://*:5555")
    /\ config.input_address = "tcp://*:9999"


\* C28: force_reload releases and re-materializes under one hold of the
\* lock.  While it is between the two, it owns the lock and the slot is
\* empty, the service is not inside get_model, and no step of another
\* thread takes the lock: a get_model, an is_loaded or a monitor check that
\* is due stays where it is, and the slot, the stamp and the last is_loaded
\* answer do not change.  When the reload succeeds the slot holds the
\* instance that load produced, stamped with the current time, and the lock
\* is free.
C28_ForceReloadAtomic ==
    [][/\ apc = "load" =>
             /\ lock_owner = "adm"
             /\ model = None
             /\ spc \notin {"gm_load", "gm_return"}
       /\ (apc = "load" /\ apc' = "load") =>
             /\ UNCHANGED <<model, last_used_time, lock_owner, seen>>
             /\ mpc = "lock" => mpc' = "lock"
             /\ opc = "waiting" => opc' = "waiting"
             /\ spc = "get_model" => spc' = "get_model"
       /\ (apc = "load" /\ apc' = "idle" /\ model' # None) =>
             /\ model' = NewInstance
             /\ last_used_time' = now'
             /\ lock_owner' = "none"]_vars

\* A reload has emptied the slot and not yet loaded, while the service is
\* at get_model, the monitor's check is due and an is_loaded call is
\* pending.
C28_Witness ==
    /\ apc = "load" /\ model = None
    /\ spc = "get_model" /\ mpc = "lock" /\ opc = "waiting"

\* C29: is_loaded() returns without waiting for another thread, also while
\* the service is inside get_model loading the engine: a pending call can
\* always take its read.
C29_IsLoadedNeverWaits ==
    (opc = "waiting" /\ spc = "gm_load" /\ model = None) => CanAcquire("obs")


\* C31: requests are served first-polled-first-served.  A call polls one
\* message; what it sends is sent before the next poll, so the responses
\* leave in the order of the polls.  C31_InOrder is the ordering part: a
\* send adds one frame, made from the request this call decoded, to a call
\* that has sent nothing yet, and the next poll starts with nothing sent.
C31_InOrder ==
    [][/\ sent' # sent /\ sent' # << >> =>
             /\ sent = << >>
             /\ Len(sent') = 1
             /\ Decoded'
             /\ sent'[1].socket = "output"
             /\ deserialize_transcription_response(sent'[1].frames[1]).request_id
                    = cur'.request.request_id
       /\ polled' # polled =>
             /\ polled' = polled + 1
             /\ spc = "recv" /\ sent = << >> /\ ~Decoded]_vars

\* C31 as stated: the sequence of the request_ids sent is the sequence of
\* the request_ids decoded, so each call that decoded a request has sent
\* the one response with its request_id when it returns to the loop (a
\* send that raised set aside).
C31_FirstPolledFirstServed ==
    [][(spc = "finally" /\ spc' # "finally" /\ Decoded /\ exc # "ZMQError") =>
           /\ Len(sent) = 1
           /\ deserialize_transcription_response(sent[1].frames[1]).request_id
                  = cur.request.request_id]_vars


\* C32: a payload that decodes into an AudioRequest but breaks a
\* well-formedness constraint (empty request_id, a format other than wav
\* or flac, a sample_rate that is no positive integer, empty audio_data)
\* is answered with an error response carrying the decoded request_id; it
\* is never dropped (a send that raised set aside).
C32_IllFormed ==
    LET r == cur.request
    IN \/ r.request_id = ""
       \/ r.audio_format \notin {"wav", "flac"}
       \/ r.sample_rate.t # "int"
       \/ (r.sample_rate.t = "int" /\ r.sample_rate.v <= 0)
       \/ ~Truthy(r.audio_data)
C32_IllFormedAnswered ==
    (spc = "finally" /\ Decoded /\ C32_IllFormed /\ exc # "ZMQError") =>
        /\ Len(sent) = 1
        /\ deserialize_transcription_response(sent[1].frames[1]).status = "error"
        /\ deserialize_transcription_response(sent[1].frames[1]).request_id
               = message_parts.data.body.request_id


\* C33: every response the service emits carries the measured duration of
\* the attempt, the error response after a failed inference included: the
\* processing_time_ms read back from a frame sent after transcribe() was
\* entered is a measured value, never the default.
C33_DurationAlwaysMeasured ==
    (spc = "finally" /\ Len(sent) = 1
        /\ outcome \in {"success", "inference_error", "load_error"}) =>
        deserialize_transcription_response(sent[1].frames[1]).processing_time_ms.measured


\* C34: listen() loops until stopped and then returns.  Once the flag is
\* cleared the loop makes no further receive after the current one, and
\* the call is left only by returning, with the flag cleared: it never
\* ends by raising.
C34_ListenUntilStopped ==
    [][/\ (cpc = "test" /\ ~client_running) => cpc' # "recv"
       /\ (cpc # "idle" /\ cpc' = "idle") =>
             /\ ~client_running /\ ~client_running'
             /\ client_exc' = "none"]_vars


\* C35: the client's connection state machine.  receive() and listen()
\* called on a client that has no socket raise RuntimeError and touch
\* nothing; connect() on a connected client keeps the socket and what
\* waits on it; disconnect() leaves the client without socket and with the
\* flag cleared, and on a disconnected client changes nothing; receive()
\* on a connected client with no pending message returns None without
\* raising.  (A step of the application's thread leaves the position of
\* the listening loop and the count of arrivals as they are.)
C35_ConnectionStateMachine ==
    [][/\ (cpc = "idle" /\ called' \in {"receive", "listen"} /\ arrived' = arrived
              /\ client_socket = "none") =>
             /\ client_exc' = "RuntimeError"
             /\ UNCHANGED <<client_socket, client_running, inbox, taken, cpc, received,
                            delivered>>
       /\ (called' = "connect" /\ cpc' = cpc /\ arrived' = arrived
              /\ client_socket # "none") =>
             UNCHANGED <<client_socket, client_running, inbox, taken, received,
                         delivered, client_exc>>
       /\ (called' = "disconnect" /\ cpc' = cpc /\ arrived' = arrived) =>
             /\ client_socket' = "none" /\ ~client_running'
             /\ (client_socket = "none" /\ ~client_running) =>
                    UNCHANGED <<client_socket, client_running, inbox, taken, received,
                                delivered, client_exc>>
       /\ (cpc = "idle" /\ cpc' = "idle" /\ called' = "receive" /\ arrived' = arrived
              /\ client_socket = "bound" /\ inbox = << >>) =>
             /\ received' = NoResponse
             /\ client_exc' = "none"
             /\ UNCHANGED <<client_socket, inbox, taken>>]_vars
\* receive() raised on a client that had been connected, had taken a
\* message and was disconnected since.
C35_Witness ==
    /\ called = "receive" /\ client_exc = "RuntimeError"
    /\ client_socket = "none" /\ taken > 0


\* C38: audio that is read with a channel count other than 2 (one channel,
\* or three) at the expected rate is admitted whatever convert_to_mono is,
\* and the path handed on is the staged file itself, holding what was
\* written to it; nothing else is created or removed.  (A failed write of
\* the staged file is the one other outcome.)
C38_NotTwoChannels(a) ==
    a.t = "bytes" /\ a.snd.ok /\ a.snd.channels # 2 /\ a.snd.rate = expected_sample_rate
C36_LockHeldOnlyInside ==
    /\ lock_owner \in {"none", "svc", "adm", "mon"}
    /\ lock_owner = "svc" => spc \in {"gm_load", "gm_return"}
    /\ lock_owner = "adm" => apc = "load"
    /\ lock_owner = "mon" => mpc = "held"
C36_DeadlockFree ==
    /\ []C36_LockHeldOnlyInside
    /\ []<>(opc # "waiting")
    /\ []<>(spc \notin {"get_model", "gm_load", "gm_return"})
    /\ []<>(apc # "load")
    /\ []<>(mpc \notin {"lock", "held"})
\* The monitor holds the lock and is about to release an engine whose idle
\* time has expired, while the service waits in get_model and an is_loaded
\* call is pending.
C36_Witness ==
    /\ mpc = "held" /\ lock_owner = "mon" /\ IdleExpired
    /\ spc = "get_model" /\ opc = "waiting"


\* C37: whatever start_monitoring and stop_monitoring calls are made, at
\* most one monitor thread is active at any time: never are two threads
\* past the test of _running and on their way to the check that releases
\* the engine.  C37_NoSecondStart is the first part: no thread is started
\* while monitoring is running.
C37_NoSecondStart ==
    [][Len(monitor_threads') > Len(monitor_threads) => ~mm_running]_vars
C37_AtMostOneActiveMonitor ==
    Cardinality({ i \in 1..Len(monitor_threads) : monitor_threads[i].pc = "lock" }) <= 1


\* C39: dataset generation is resumable and complete.  When generate()
\* has returned and no transcription failed in the run, every .wav file
\* of the directory has a row in the ledger and a line in the metadata
\* file, whatever the two held before; and no file that was recorded in
\* both before the run was transcribed in it.  C39_NoRepeat is the second
\* part alone.
C39_NoRepeat ==
    dataset.ran \cap dataset.before = {}
====
